---- MODULE Spec2Model ----
(***************************************************************************)
(* Number Link solver (src/NumberLink/numberlink_solver_v1.cc).            *)
(*                                                                         *)
(* The model follows main(): a NumberLink object is constructed for a      *)
(* width x height board, Initialize() assigns the diagonal cell keys, the  *)
(* cells are read, and Solve() runs the memoized depth-first search.       *)
(* The recursion Solve -> Connect -> Solve is kept as an explicit stack of *)
(* Connect activations (frames); every UniteMates and RevertMates call is  *)
(* a step of its own, so the connectivity state is visible before and      *)
(* after each of them.                                                     *)
(***************************************************************************)
EXTENDS Integers, Sequences, FiniteSets, TLC

\* ---------------------------------------------------------------- bounds
\* Boards of the search have at most MaxCells cells.
MaxCells == 6
\* Input cell values are 0 .. MaxLabel.
MaxLabel == 2
\* Boards of the indexer specification are at most MaxDim x MaxDim.
MaxDim == 4
\* Boards of the sparse specification have at most MaxSparseCells cells, of
\* which at most MaxLabeled carry a label.
MaxSparseCells == 9
MaxLabeled == 2

\* ------------------------------------------------------ program constants
\* The sentinel stored in mates_ for a cell with two line segments.
Closed == -1
\* Seeds of the XorShift hash.
XorShiftX == 123456789
XorShiftY == 362436069
XorShiftZ == 521288629
XorShiftW == 88675123
\* 2^16: a 32-bit unsigned int is kept as <<high half, low half>>.
Half == 2^16

VARIABLES
    pc,            \* position of main / Initialize / Solve
    width_, height_, size_,
    cell_x_, cell_y_, keys_, start_,
    table_, mates_, mate_stack_,
    connected_x_, connected_y_,
    memo_, solved_,
    init_x, init_y, init_key,   \* locals x, y, cell_key of Initialize
    input,         \* the integers main reads for the cells, by y * width + x
    frames,        \* the active Connect calls, innermost last: the locals of
                   \* Connect and of the Solve call around it, and
                   \* entry_mates, entry_x and entry_y, the history of
                   \* mates_, connected_x_ and connected_y_ at revert_point
    result,        \* solution_count in main
    print_count,   \* number of Print() calls so far
    terminals      \* history: number of times Solve reached cell_key == size_

vars == <<pc, width_, height_, size_, cell_x_, cell_y_, keys_, start_,
          table_, mates_, mate_stack_, connected_x_, connected_y_,
          memo_, solved_, init_x, init_y, init_key, input, frames, result,
          print_count, terminals>>

\* ------------------------------------------------------------ small helpers
Keys == 0 .. size_ - 1

Top == frames[Len(frames)]

Callers == SubSeq(frames, 1, Len(frames) - 1)

\* typedef char CellNumber: the value an int becomes when stored in a cell.
CellNumber(v) == ((v + 128) % 256) - 128

\* CellKey GetCellKey(x, y)
GetCellKey(x, y) == keys_[y * width_ + x]

\* ------------------------------------------------------------------ GetHash
\* Exclusive or, bit by bit.
RECURSIVE XorBits(_, _)
XorBits(a, b) ==
    IF a = 0 THEN b
    ELSE IF b = 0 THEN a
    ELSE (((a % 2) + (b % 2)) % 2) + (2 * XorBits(a \div 2, b \div 2))

\* The table of the exclusive or of two values below 2^8.
XorByte == [a \in 0 .. 255 |-> [b \in 0 .. 255 |-> XorBits(a, b)]]

\* Exclusive or of two values below 2^16.
Xor16(a, b) ==
    (256 * XorByte[a \div 256][b \div 256]) + XorByte[a % 256][b % 256]

ToWord(n) == <<n \div Half, n % Half>>

\* (unsigned int) of a CellKey (short): -1 becomes 0xFFFFFFFF.
KeyWord(k) == IF k < 0 THEN <<Half + (k \div Half), k % Half>> ELSE ToWord(k)

WXor(a, b) == <<Xor16(a[1], b[1]), Xor16(a[2], b[2])>>

WAdd(a, b) ==
    LET lo == a[2] + b[2]
    IN  <<(a[1] + b[1] + (lo \div Half)) % Half, lo % Half>>

\* x << 11
WShl11(a) == <<((a[1] * 2048) % Half) + ((a[2] * 2048) \div Half),
               (a[2] * 2048) % Half>>

\* x >> 19
WShr19(a) == <<0, a[1] \div 8>>

\* x >> 8
WShr8(a) == <<a[1] \div 256, ((a[1] % 256) * 256) + (a[2] \div 256)>>

\* One round of the loop of GetHash on the state s = <<x, y, z, w>>.
\* In C++ + binds tighter than ^: w = (w ^ (w >> 19)) ^ ((t ^ (t >> 8)) + key).
HashRound(s, key) ==
    LET t == WXor(s[1], WShl11(s[1]))
    IN  <<s[2], s[3], s[4],
          WXor(WXor(s[4], WShr19(s[4])), WAdd(WXor(t, WShr8(t)), KeyWord(key)))>>

RECURSIVE HashFrom(_, _, _)
HashFrom(s, cell_keys, i) ==
    IF i > Len(cell_keys) THEN s
    ELSE HashFrom(HashRound(s, cell_keys[i]), cell_keys, i + 1)

\* The Hash pair <<x:y, z:w>> is kept as the four 32-bit words.
GetHash(cell_keys) ==
    HashFrom(<<ToWord(XorShiftX), ToWord(XorShiftY),
               ToWord(XorShiftZ), ToWord(XorShiftW)>>, cell_keys, 1)

\* --------------------------------------------------------------- Initialize
\* NextCell walking each diagonal the other way, from its cell of smallest x.
RECURSIVE NextCellUpward(_, _)
NextCellUpward(x, y) ==
    LET x1 == x + 1
        y1 == y - 1
        x2 == IF y1 < 0 THEN 0 ELSE x1
        y2 == IF y1 < 0 THEN x1 ELSE y1
    IN  IF x2 < 0 \/ width_ <= x2 \/ y2 < 0 \/ height_ <= y2
        THEN NextCellUpward(x2, y2)
        ELSE <<x2, y2>>

\* The do-while of Initialize: the next in-bounds cell of the diagonal walk.
RECURSIVE NextCell(_, _)
NextCell(x, y) ==
    LET x1 == x - 1
        y1 == y + 1
        x2 == IF x1 < 0 THEN y1 ELSE x1
        y2 == IF x1 < 0 THEN 0 ELSE y1
    IN  IF x2 < 0 \/ width_ <= x2 \/ y2 < 0 \/ height_ <= y2
        THEN NextCell(x2, y2)
        ELSE <<x2, y2>>

\* The state after the constructor: every vector is value-initialized, the
\* flag solved_ is not initialized and holds either value.
Constructed(w, h) ==
    /\ pc = "constructed"
    /\ width_ = w /\ height_ = h /\ size_ = w * h
    /\ cell_x_ = [k \in 0 .. w * h - 1 |-> 0]
    /\ cell_y_ = [k \in 0 .. w * h - 1 |-> 0]
    /\ table_ = [k \in 0 .. w * h - 1 |-> 0]
    /\ keys_ = [k \in 0 .. w * h - 1 |-> 0]
    /\ mates_ = [k \in 0 .. w * h - 1 |-> 0]
    /\ start_ = [k \in 0 .. w * h |-> 0]
    /\ connected_x_ = [k \in 0 .. w * h - 1 |-> FALSE]
    /\ connected_y_ = [k \in 0 .. w * h - 1 |-> FALSE]
    /\ memo_ = [k \in 0 .. w * h - 1 |-> <<>>]
    /\ mate_stack_ = <<>>
    /\ solved_ \in BOOLEAN
    /\ init_x = 0 /\ init_y = 0 /\ init_key = 0
    /\ input = <<>>
    /\ frames = <<>>
    /\ result = 0
    /\ print_count = 0
    /\ terminals = 0

Init ==
    \E w \in 1 .. MaxCells, h \in 1 .. MaxCells :
        /\ w * h <= MaxCells
        /\ Constructed(w, h)

InitSparse ==
    \E w \in 1 .. MaxSparseCells, h \in 1 .. MaxSparseCells :
        /\ w * h <= MaxSparseCells
        /\ Constructed(w, h)

InitIndexer ==
    \E w \in 1 .. MaxDim, h \in 1 .. MaxDim : Constructed(w, h)

\* Lines 61-68: mates_ becomes the identity; x, y and cell_key start at 0.
InitializeMates ==
    /\ pc = "constructed"
    /\ mates_' = [k \in Keys |-> k]
    /\ init_x' = 0 /\ init_y' = 0 /\ init_key' = 0
    /\ pc' = "init_loop"
    /\ UNCHANGED <<width_, height_, size_, cell_x_, cell_y_, keys_, start_,
                   table_, mate_stack_, connected_x_, connected_y_, memo_,
                   solved_, input, frames, result, print_count, terminals>>

\* Lines 69-84: one iteration of the while (true) loop.
InitializeStep ==
    /\ pc = "init_loop"
    /\ cell_x_' = [cell_x_ EXCEPT ![init_key] = init_x]
    /\ cell_y_' = [cell_y_ EXCEPT ![init_key] = init_y]
    /\ keys_' = [keys_ EXCEPT ![init_y * width_ + init_x] = init_key]
    /\ init_key' = init_key + 1
    /\ IF init_key + 1 = size_
       THEN /\ pc' = "init_start"
            /\ UNCHANGED <<init_x, init_y>>
       ELSE /\ pc' = "init_loop"
            /\ init_x' = NextCell(init_x, init_y)[1]
            /\ init_y' = NextCell(init_x, init_y)[2]
    /\ UNCHANGED <<width_, height_, size_, start_, table_, mates_,
                   mate_stack_, connected_x_, connected_y_, memo_, solved_,
                   input, frames, result, print_count, terminals>>

\* Lines 86-93 with the left cell preferred to the upper cell.
InitializeStartLeftFirst ==
    /\ pc = "init_start"
    /\ start_' = [i \in 0 .. size_ |->
                    IF i = size_ THEN size_
                    ELSE IF 0 < cell_x_[i]
                         THEN GetCellKey(cell_x_[i] - 1, cell_y_[i])
                         ELSE IF 0 < cell_y_[i]
                              THEN GetCellKey(cell_x_[i], cell_y_[i] - 1)
                              ELSE 0]
    /\ pc' = "initialized"
    /\ UNCHANGED <<width_, height_, size_, cell_x_, cell_y_, keys_, table_,
                   mates_, mate_stack_, connected_x_, connected_y_, memo_,
                   solved_, init_x, init_y, init_key, input, frames, result,
                   print_count, terminals>>

\* Lines 86-93: the key to look back to, for every cell, and the guard.
InitializeStart ==
    /\ pc = "init_start"
    /\ start_' = [i \in 0 .. size_ |->
                    IF i = size_ THEN size_
                    ELSE IF 0 < cell_y_[i]
                         THEN GetCellKey(cell_x_[i], cell_y_[i] - 1)
                         ELSE IF 0 < cell_x_[i]
                              THEN GetCellKey(cell_x_[i] - 1, cell_y_[i])
                              ELSE 0]
    /\ pc' = "initialized"
    /\ UNCHANGED <<width_, height_, size_, cell_x_, cell_y_, keys_, table_,
                   mates_, mate_stack_, connected_x_, connected_y_, memo_,
                   solved_, init_x, init_y, init_key, input, frames, result,
                   print_count, terminals>>

NextIndexer == InitializeMates \/ InitializeStep \/ InitializeStart

SpecIndexer == InitIndexer /\ [][NextIndexer]_vars

\* ------------------------------------------------- main: reading the cells
\* main, lines 304-310: nl.Cell(x, y) = value for every coordinate, the
\* values being those of one of the boards.
ReadCellsFrom(boards) ==
    /\ pc = "initialized"
    /\ \E inp \in boards :
        /\ input' = inp
        /\ table_' = [k \in Keys |->
                        CellNumber(inp[cell_y_[k] * width_ + cell_x_[k]])]
    /\ pc' = "loaded"
    /\ UNCHANGED <<width_, height_, size_, cell_x_, cell_y_, keys_, start_,
                   mates_, mate_stack_, connected_x_, connected_y_, memo_,
                   solved_, init_x, init_y, init_key, frames, result,
                   print_count, terminals>>

\* Every board of the size, with cell values 0 .. MaxLabel.
ReadCells == ReadCellsFrom([0 .. size_ - 1 -> 0 .. MaxLabel])

\* The boards with at most MaxLabeled labeled cells.
ReadSparseCells ==
    ReadCellsFrom({inp \in [0 .. size_ - 1 -> 0 .. MaxLabel] :
                     Cardinality({p \in DOMAIN inp : inp[p] # 0}) <= MaxLabeled})

\* ------------------------------------------------ the connectivity state
\* A connectivity state ms is [mates |-> mates_, stack |-> mate_stack_].

\* ChangeMates logging the new value instead of the previous one.
ChangeMatesLogsNew(ms, cell_key, cell_value) ==
    IF ms.mates[cell_key] # cell_value
    THEN [mates |-> [ms.mates EXCEPT ![cell_key] = cell_value],
          stack |-> Append(ms.stack, <<cell_key, cell_value>>)]
    ELSE ms

\* int ChangeMates(cell_key, cell_value)
ChangeMates(ms, cell_key, cell_value) ==
    IF ms.mates[cell_key] # cell_value
    THEN [mates |-> [ms.mates EXCEPT ![cell_key] = cell_value],
          stack |-> Append(ms.stack, <<cell_key, ms.mates[cell_key]>>)]
    ELSE ms

\* RevertMates with an if in place of the loop: one entry is undone.
RevertMatesOnce(ms, stack_size) ==
    IF stack_size < Len(ms.stack)
    THEN LET top == ms.stack[Len(ms.stack)]
         IN  [mates |-> [ms.mates EXCEPT ![top[1]] = top[2]],
              stack |-> SubSeq(ms.stack, 1, Len(ms.stack) - 1)]
    ELSE ms

\* void RevertMates(stack_size)
RECURSIVE RevertMates(_, _)
RevertMates(ms, stack_size) ==
    IF stack_size < Len(ms.stack)
    THEN LET top == ms.stack[Len(ms.stack)]
         IN  RevertMates([mates |-> [ms.mates EXCEPT ![top[1]] = top[2]],
                          stack |-> SubSeq(ms.stack, 1, Len(ms.stack) - 1)],
                         stack_size)
    ELSE ms

\* UniteMates, line 256: cannot connect any branch.
IsBranch(end1, end2) == end1 = Closed \/ end2 = Closed

\* UniteMates without the check of line 258.
IsCycleNever(cell_key1, cell_key2, end1, end2) == FALSE

\* UniteMates, line 258: avoid making a cycle.
IsCycle(cell_key1, cell_key2, end1, end2) ==
    cell_key1 = end2 /\ cell_key2 = end1

\* UniteMates without the last ChangeMates call: end2 is not linked to end1.
RelinkOneWay(ms, cell_key1, cell_key2, end1, end2) ==
    ChangeMates(
        ChangeMates(
            ChangeMates(ms, cell_key1, Closed),
            cell_key2, Closed),
        end1, end2)

\* The four calls with the two ends linked before the two cells are closed.
RelinkEndsFirst(ms, cell_key1, cell_key2, end1, end2) ==
    ChangeMates(
        ChangeMates(
            ChangeMates(
                ChangeMates(ms, end1, end2),
                end2, end1),
            cell_key1, Closed),
        cell_key2, Closed)

\* UniteMates, lines 260-263: the four ChangeMates calls.
Relink(ms, cell_key1, cell_key2, end1, end2) ==
    ChangeMates(
        ChangeMates(
            ChangeMates(
                ChangeMates(ms, cell_key1, Closed),
                cell_key2, Closed),
            end1, end2),
        end2, end1)

\* UniteMates without the checks of lines 268-269.
NumberedBranchAllowed(m, cell_key) == FALSE

\* UniteMates, lines 268-269: a numbered cell must not be a branch.
NumberedBranch(m, cell_key) == m[cell_key] = Closed /\ 0 < table_[cell_key]

\* UniteMates without the check of lines 270-271.
DifferentNumbersAllowed(end1, end2) == FALSE

\* UniteMates, lines 270-271: different numbers cannot be connected.
DifferentNumbers(end1, end2) ==
    0 < table_[end1] /\ 0 < table_[end2] /\ table_[end1] # table_[end2]

\* bool UniteMates(cell_key1, cell_key2): the returned value and the
\* connectivity state the call leaves.
UniteMates(ms, cell_key1, cell_key2) ==
    LET end1 == ms.mates[cell_key1]
        end2 == ms.mates[cell_key2]
    IN  IF IsBranch(end1, end2)
        THEN [ok |-> FALSE, mates |-> ms.mates, stack |-> ms.stack]
        ELSE IF IsCycle(cell_key1, cell_key2, end1, end2)
        THEN [ok |-> FALSE, mates |-> ms.mates, stack |-> ms.stack]
        ELSE LET s == Relink(ms, cell_key1, cell_key2, end1, end2)
             IN  [ok |-> /\ ~NumberedBranch(s.mates, cell_key1)
                         /\ ~NumberedBranch(s.mates, cell_key2)
                         /\ ~DifferentNumbers(end1, end2),
                  mates |-> s.mates, stack |-> s.stack]

Current == [mates |-> mates_, stack |-> mate_stack_]

\* ------------------------------------------------------------------- Solve
\* The check of the newly fixed cells without its branch for empty cells.
RetireFailsNumberedOnly(cell_key, m) ==
    /\ 0 < cell_key
    /\ \E hidden \in start_[cell_key - 1] .. start_[cell_key] - 1 :
          table_[hidden] # 0 /\ m[hidden] = hidden

\* The check with an empty cell required to be closed: an unused empty cell
\* ends the branch too.
RetireFailsBlankUnused(cell_key, m) ==
    /\ 0 < cell_key
    /\ \E hidden \in start_[cell_key - 1] .. start_[cell_key] - 1 :
          IF table_[hidden] = 0
          THEN m[hidden] # Closed
          ELSE m[hidden] = hidden

\* Solve, lines 106-117: a newly fixed cell ends the branch.
RetireFails(cell_key, m) ==
    /\ 0 < cell_key
    /\ \E hidden \in start_[cell_key - 1] .. start_[cell_key] - 1 :
          IF table_[hidden] = 0
          THEN m[hidden] # Closed /\ m[hidden] # hidden
          ELSE m[hidden] = hidden

\* The memo key without its last cell: mates_[cell_key - 1] is left out.
MateTupleDropLast(cell_key) ==
    [i \in 1 .. cell_key - start_[cell_key] - 1 |->
        mates_[start_[cell_key] + i - 1]]

\* Solve, lines 128-129: mates_[start_[cell_key]], ..., mates_[cell_key - 1].
MateTuple(cell_key) ==
    [i \in 1 .. cell_key - start_[cell_key] |-> mates_[start_[cell_key] + i - 1]]

\* Connect, lines 140-142.
UpCellKey(cell_key) ==
    IF 0 < cell_y_[cell_key]
    THEN GetCellKey(cell_x_[cell_key], cell_y_[cell_key] - 1) ELSE -1

LeftCellKey(cell_key) ==
    IF 0 < cell_x_[cell_key]
    THEN GetCellKey(cell_x_[cell_key] - 1, cell_y_[cell_key]) ELSE -1

\* The positions of a Connect call at which it calls Solve(cell_key + 1):
\* lines 145, 150, 159 and 164.
CallPcs == {"none", "up", "left", "leftup"}

\* Where Connect continues when that call returns.
AfterCall(p) ==
    CASE p = "none" -> "try_up"
      [] p = "up" -> "up_done"
      [] p = "left" -> "try_leftup"
      [] p = "leftup" -> "leftup_done"

\* Some caller is about to enter Solve: main (line 311) or a Connect call.
Calling ==
    \/ pc = "loaded"
    \/ pc = "solving" /\ Top.pc \in CallPcs

\* Connect calling Solve(cell_key) instead of Solve(cell_key + 1).
CalleeKeySame == IF pc = "loaded" THEN 0 ELSE Top.cell_key

\* The argument of that call.
CalleeKey == IF pc = "loaded" THEN 0 ELSE Top.cell_key + 1

\* Solve without line 104.
SolvedNotReset == solved_

\* Solve, line 104.
SolvedAtEntry == IF CalleeKey = 0 THEN FALSE ELSE solved_

\* A call of Solve returns value to its caller: the innermost of the Connect
\* calls fs adds it to solution_count and goes on, main stores it.
ReturnTo(fs, value) ==
    IF fs = <<>>
    THEN /\ frames' = <<>>
         /\ result' = value
         /\ pc' = "done"
    ELSE /\ frames' = [fs EXCEPT
                         ![Len(fs)].solution_count = @ + value,
                         ![Len(fs)].pc = AfterCall(@)]
         /\ result' = result
         /\ pc' = "solving"

\* Solve, lines 106-117: return 0.0.
SolveRetire ==
    /\ Calling
    /\ RetireFails(CalleeKey, mates_)
    /\ solved_' = SolvedAtEntry
    /\ ReturnTo(frames, 0)
    /\ UNCHANGED <<width_, height_, size_, cell_x_, cell_y_, keys_, start_,
                   table_, mates_, mate_stack_, connected_x_, connected_y_,
                   memo_, init_x, init_y, init_key, input, print_count,
                   terminals>>

\* Solve, lines 119-125: all the cells are filled.
SolveTerminal ==
    /\ Calling
    /\ ~RetireFails(CalleeKey, mates_)
    /\ CalleeKey = size_
    /\ print_count' = IF SolvedAtEntry THEN print_count ELSE print_count + 1
    /\ solved_' = TRUE
    /\ terminals' = terminals + 1
    /\ ReturnTo(frames, 1)
    /\ UNCHANGED <<width_, height_, size_, cell_x_, cell_y_, keys_, start_,
                   table_, mates_, mate_stack_, connected_x_, connected_y_,
                   memo_, init_x, init_y, init_key, input>>

\* Solve, lines 128-134: the count of a sequence of mates seen before is
\* returned; for a new one Connect(cell_key) starts (lines 138-143).
SolveMemo ==
    /\ Calling
    /\ ~RetireFails(CalleeKey, mates_)
    /\ CalleeKey # size_
    /\ LET mate_hash == GetHash(MateTuple(CalleeKey))
       IN  IF mate_hash \in DOMAIN memo_[CalleeKey]
           THEN ReturnTo(frames, memo_[CalleeKey][mate_hash])
           ELSE /\ frames' = Append(frames,
                       [cell_key |-> CalleeKey, pc |-> "none",
                        solution_count |-> 0,
                        revert_point |-> Len(mate_stack_),
                        mate_hash |-> mate_hash,
                        entry_mates |-> mates_,
                        entry_x |-> connected_x_,
                        entry_y |-> connected_y_])
                /\ pc' = "solving"
                /\ result' = result
    /\ solved_' = SolvedAtEntry
    /\ UNCHANGED <<width_, height_, size_, cell_x_, cell_y_, keys_, start_,
                   table_, mates_, mate_stack_, connected_x_, connected_y_,
                   memo_, init_x, init_y, init_key, input, print_count,
                   terminals>>

\* ----------------------------------------------------------------- Connect
SetPc(p) == frames' = [frames EXCEPT ![Len(frames)].pc = p]

\* Connect returns (line 172); Solve stores the count (line 132) and returns
\* it (line 134).
ConnectReturn ==
    /\ memo_' = [memo_ EXCEPT ![Top.cell_key] =
                    (Top.mate_hash :> Top.solution_count) @@ @]
    /\ ReturnTo(Callers, Top.solution_count)

\* Connect, lines 147-149: connect the cell with the upper cell.
ConnectUp ==
    /\ pc = "solving" /\ Top.pc = "try_up"
    /\ IF 0 <= UpCellKey(Top.cell_key)
       THEN LET u == UniteMates(Current, Top.cell_key, UpCellKey(Top.cell_key))
            IN  /\ mates_' = u.mates
                /\ mate_stack_' = u.stack
                /\ connected_y_' =
                      IF u.ok THEN [connected_y_ EXCEPT ![Top.cell_key] = TRUE]
                      ELSE connected_y_
                /\ SetPc(IF u.ok THEN "up" ELSE "up_revert")
       ELSE /\ SetPc("try_left")
            /\ UNCHANGED <<mates_, mate_stack_, connected_y_>>
    /\ UNCHANGED <<pc, width_, height_, size_, cell_x_, cell_y_, keys_, start_,
                   table_, connected_x_, memo_, solved_, init_x, init_y,
                   init_key, input, result, print_count, terminals>>

\* Lines 151-153 without line 152: connected_y_ keeps the edge.
ConnectUpRevertKeepsEdge ==
    /\ pc = "solving" /\ Top.pc \in {"up_done", "up_revert"}
    /\ mates_' = RevertMates(Current, Top.revert_point).mates
    /\ mate_stack_' = RevertMates(Current, Top.revert_point).stack
    /\ SetPc("try_left")
    /\ UNCHANGED <<pc, width_, height_, size_, cell_x_, cell_y_, keys_, start_,
                   table_, connected_x_, connected_y_, memo_, solved_, init_x,
                   init_y, init_key, input, result, print_count, terminals>>

\* Connect, lines 151-153: the end of the branch of the upper cell.
ConnectUpRevert ==
    /\ pc = "solving" /\ Top.pc \in {"up_done", "up_revert"}
    /\ connected_y_' = IF Top.pc = "up_done"
                       THEN [connected_y_ EXCEPT ![Top.cell_key] = FALSE]
                       ELSE connected_y_
    /\ mates_' = RevertMates(Current, Top.revert_point).mates
    /\ mate_stack_' = RevertMates(Current, Top.revert_point).stack
    /\ SetPc("try_left")
    /\ UNCHANGED <<pc, width_, height_, size_, cell_x_, cell_y_, keys_, start_,
                   table_, connected_x_, memo_, solved_, init_x, init_y,
                   init_key, input, result, print_count, terminals>>

\* Connect, lines 156-158: connect the cell with the left cell.
ConnectLeft ==
    /\ pc = "solving" /\ Top.pc = "try_left"
    /\ 0 <= LeftCellKey(Top.cell_key)
    /\ LET u == UniteMates(Current, Top.cell_key, LeftCellKey(Top.cell_key))
       IN  /\ mates_' = u.mates
           /\ mate_stack_' = u.stack
           /\ connected_x_' =
                 IF u.ok THEN [connected_x_ EXCEPT ![Top.cell_key] = TRUE]
                 ELSE connected_x_
           /\ SetPc(IF u.ok THEN "left" ELSE "left_revert")
    /\ UNCHANGED <<pc, width_, height_, size_, cell_x_, cell_y_, keys_, start_,
                   table_, connected_y_, memo_, solved_, init_x, init_y,
                   init_key, input, result, print_count, terminals>>

\* Connect, lines 156 and 172: there is no left cell.
ConnectNoLeft ==
    /\ pc = "solving" /\ Top.pc = "try_left"
    /\ ~(0 <= LeftCellKey(Top.cell_key))
    /\ ConnectReturn
    /\ UNCHANGED <<width_, height_, size_, cell_x_, cell_y_, keys_, start_,
                   table_, mates_, mate_stack_, connected_x_, connected_y_,
                   solved_, init_x, init_y, init_key, input, print_count,
                   terminals>>

\* Connect, lines 161-163: connect the cell with the upper and the left cells.
ConnectLeftUp ==
    /\ pc = "solving" /\ Top.pc = "try_leftup"
    /\ IF 0 <= UpCellKey(Top.cell_key)
       THEN LET u == UniteMates(Current, Top.cell_key, UpCellKey(Top.cell_key))
            IN  /\ mates_' = u.mates
                /\ mate_stack_' = u.stack
                /\ connected_y_' =
                      IF u.ok THEN [connected_y_ EXCEPT ![Top.cell_key] = TRUE]
                      ELSE connected_y_
                /\ SetPc(IF u.ok THEN "leftup" ELSE "left_done")
       ELSE /\ SetPc("left_done")
            /\ UNCHANGED <<mates_, mate_stack_, connected_y_>>
    /\ UNCHANGED <<pc, width_, height_, size_, cell_x_, cell_y_, keys_, start_,
                   table_, connected_x_, memo_, solved_, init_x, init_y,
                   init_key, input, result, print_count, terminals>>

\* Connect, lines 165-172: the end of the branch of the left cell, and of
\* Connect.
ConnectLeftRevert ==
    /\ pc = "solving" /\ Top.pc \in {"leftup_done", "left_done", "left_revert"}
    /\ connected_y_' = IF Top.pc = "leftup_done"
                       THEN [connected_y_ EXCEPT ![Top.cell_key] = FALSE]
                       ELSE connected_y_
    /\ connected_x_' = IF Top.pc \in {"leftup_done", "left_done"}
                       THEN [connected_x_ EXCEPT ![Top.cell_key] = FALSE]
                       ELSE connected_x_
    /\ mates_' = RevertMates(Current, Top.revert_point).mates
    /\ mate_stack_' = RevertMates(Current, Top.revert_point).stack
    /\ ConnectReturn
    /\ UNCHANGED <<width_, height_, size_, cell_x_, cell_y_, keys_, start_,
                   table_, solved_, init_x, init_y, init_key, input,
                   print_count, terminals>>

Search ==
    \/ SolveRetire
    \/ SolveTerminal
    \/ SolveMemo
    \/ ConnectUp
    \/ ConnectUpRevert
    \/ ConnectLeft
    \/ ConnectNoLeft
    \/ ConnectLeftUp
    \/ ConnectLeftRevert

Next ==
    \/ InitializeMates
    \/ InitializeStep
    \/ InitializeStart
    \/ ReadCells
    \/ Search

Spec == Init /\ [][Next]_vars

\* The same program on larger boards with few labeled cells.
NextSparse ==
    \/ InitializeMates
    \/ InitializeStep
    \/ InitializeStart
    \/ ReadSparseCells
    \/ Search

SpecSparse == InitSparse /\ [][NextSparse]_vars

\* ------------------------------------------------- main: the dataset loop
\* The largest absolute value of a dimension read by main.
MaxMainDim == 2

\* The cell values read by main: blank, a small label, and integers above
\* the range of CellNumber.
WideValues == {0, 1, 128, 256, 257}

\* The conversion of an int to CellKey (line 45, short).
CellKey(v) == ((v + 2^15) % 2^16) - 2^15

\* The conversion of an int to CellNumber where char is unsigned.
CellNumberUnsigned(v) == v % 256

\* main after scanf has read width and height (line 301): no solver exists
\* yet, width_ and height_ hold the two integers read.
Scanned(w, h) ==
    /\ pc = "scanned"
    /\ width_ = w /\ height_ = h /\ size_ = 0
    /\ cell_x_ = <<>> /\ cell_y_ = <<>> /\ table_ = <<>> /\ keys_ = <<>>
    /\ mates_ = <<>> /\ start_ = <<>>
    /\ connected_x_ = <<>> /\ connected_y_ = <<>> /\ memo_ = <<>>
    /\ mate_stack_ = <<>>
    /\ solved_ = FALSE
    /\ init_x = 0 /\ init_y = 0 /\ init_key = 0
    /\ input = <<>>
    /\ frames = <<>>
    /\ result = 0
    /\ print_count = 0
    /\ terminals = 0

InitMain ==
    \E w \in -MaxMainDim .. MaxMainDim, h \in -MaxMainDim .. MaxMainDim :
        Scanned(w, h)

\* main, line 301: the loop ends when width or height is 0; main returns 0.
MainEnd ==
    /\ pc = "scanned"
    /\ width_ = 0 \/ height_ = 0
    /\ pc' = "exit"
    /\ UNCHANGED <<width_, height_, size_, cell_x_, cell_y_, keys_, start_,
                   table_, mates_, mate_stack_, connected_x_, connected_y_,
                   memo_, solved_, init_x, init_y, init_key, input, frames,
                   result, print_count, terminals>>

\* main, line 302, and the constructor: any other pair of integers builds a
\* solver.  A negative size_ converts to a vector length above max_size and
\* the vector constructor throws std::length_error, which nothing catches.
MainConstruct ==
    /\ pc = "scanned"
    /\ width_ # 0 /\ height_ # 0
    /\ IF CellKey(CellKey(width_) * height_) < 0
       THEN /\ pc' = "aborted"
            /\ UNCHANGED <<width_, height_, size_, cell_x_, cell_y_, keys_,
                           start_, table_, mates_, mate_stack_, connected_x_,
                           connected_y_, memo_, solved_, init_x, init_y,
                           init_key, input, frames, result, print_count,
                           terminals>>
       ELSE /\ pc' = "constructed"
            /\ size_' = CellKey(CellKey(width_) * height_)
            /\ cell_x_' = [k \in 0 .. size_' - 1 |-> 0]
            /\ cell_y_' = [k \in 0 .. size_' - 1 |-> 0]
            /\ table_' = [k \in 0 .. size_' - 1 |-> 0]
            /\ keys_' = [k \in 0 .. size_' - 1 |-> 0]
            /\ mates_' = [k \in 0 .. size_' - 1 |-> 0]
            /\ start_' = [k \in 0 .. size_' |-> 0]
            /\ connected_x_' = [k \in 0 .. size_' - 1 |-> FALSE]
            /\ connected_y_' = [k \in 0 .. size_' - 1 |-> FALSE]
            /\ memo_' = [k \in 0 .. size_' - 1 |-> <<>>]
            /\ solved_' \in BOOLEAN
            /\ UNCHANGED <<width_, height_, mate_stack_, init_x, init_y,
                           init_key, input, frames, result, print_count,
                           terminals>>

\* The do-while of Initialize (lines 76-83) finds a next cell only on a board
\* with a cell in bounds.
HasCells == 0 < width_ /\ 0 < height_

\* Lines 69-84 where the walk ends or has a cell to find.
MainInitializeStep ==
    /\ HasCells \/ init_key + 1 = size_
    /\ InitializeStep

\* Lines 69-83 on a board without a cell in bounds and with size_ above 1:
\* the do-while never ends.
InitializeDiverges ==
    /\ pc = "init_loop"
    /\ ~(HasCells \/ init_key + 1 = size_)
    /\ cell_x_' = [cell_x_ EXCEPT ![init_key] = init_x]
    /\ cell_y_' = [cell_y_ EXCEPT ![init_key] = init_y]
    /\ keys_' = [keys_ EXCEPT ![init_y * width_ + init_x] = init_key]
    /\ init_key' = init_key + 1
    /\ pc' = "init_diverges"
    /\ UNCHANGED <<width_, height_, size_, start_, table_, mates_,
                   mate_stack_, connected_x_, connected_y_, memo_, solved_,
                   init_x, init_y, input, frames, result, print_count,
                   terminals>>

\* main, lines 304-310, with values of WideValues: the loops run over
\* height_ and width_, so they read nothing when these are negative; the
\* int read is stored in a char, which is signed or unsigned with the build.
ReadWideCells ==
    /\ pc = "initialized"
    /\ IF HasCells
       THEN \E inp \in [0 .. size_ - 1 -> WideValues], signed \in BOOLEAN :
              /\ input' = inp
              /\ table_' = [k \in Keys |->
                   IF signed
                   THEN CellNumber(inp[cell_y_[k] * width_ + cell_x_[k]])
                   ELSE CellNumberUnsigned(inp[cell_y_[k] * width_ + cell_x_[k]])]
       ELSE UNCHANGED <<input, table_>>
    /\ pc' = "loaded"
    /\ UNCHANGED <<width_, height_, size_, cell_x_, cell_y_, keys_, start_,
                   mates_, mate_stack_, connected_x_, connected_y_, memo_,
                   solved_, init_x, init_y, init_key, frames, result,
                   print_count, terminals>>

NextMain ==
    \/ MainEnd
    \/ MainConstruct
    \/ InitializeMates
    \/ MainInitializeStep
    \/ InitializeDiverges
    \/ InitializeStart
    \/ ReadWideCells
    \/ Search

SpecMain == InitMain /\ [][NextMain]_vars

\* ------------------------------------------ the search with the memo disabled
\* Solve and Connect with Connect always recomputed: the count of the
\* completions of the connectivity state m from cell_key on.  The state is
\* passed by value, which is what RevertMates gives the code.
RECURSIVE NoMemoSolve(_, _)
NoMemoSolve(cell_key, m) ==
    IF RetireFails(cell_key, m) THEN 0
    ELSE IF cell_key = size_ THEN 1
    ELSE LET up == UpCellKey(cell_key)
             left == LeftCellKey(cell_key)
             ms == [mates |-> m, stack |-> <<>>]
             u == UniteMates(ms, cell_key, up)
             l == UniteMates(ms, cell_key, left)
             lu == UniteMates([mates |-> l.mates, stack |-> l.stack],
                              cell_key, up)
         IN  NoMemoSolve(cell_key + 1, m)
             + (IF 0 <= up /\ u.ok
                THEN NoMemoSolve(cell_key + 1, u.mates) ELSE 0)
             + (IF 0 <= left /\ l.ok
                THEN NoMemoSolve(cell_key + 1, l.mates)
                     + (IF 0 <= up /\ lu.ok
                        THEN NoMemoSolve(cell_key + 1, lu.mates) ELSE 0)
                ELSE 0)

\* --------------------------------------------------- the puzzle, on its own
\* The search is running or has returned.
InSearch == pc \in {"solving", "done"}

\* The positions of a Connect call at which it calls RevertMates.
RevertPcs == {"up_done", "up_revert", "leftup_done", "left_done", "left_revert"}

\* Grid-adjacent cells, by their coordinates.
Adjacent(a, b) ==
    \/ cell_x_[a] = cell_x_[b] /\ (cell_y_[a] - cell_y_[b]) \in {-1, 1}
    \/ cell_y_[a] = cell_y_[b] /\ (cell_x_[a] - cell_x_[b]) \in {-1, 1}

GridEdges == {e \in SUBSET Keys : \E a, b \in Keys : a < b /\ e = {a, b} /\ Adjacent(a, b)}

\* The edges the flags connected_x_ / connected_y_ draw.
DrawnEdges ==
    {{k, LeftCellKey(k)} : k \in {c \in Keys : connected_x_[c]}}
    \cup {{k, UpCellKey(k)} : k \in {c \in Keys : connected_y_[c]}}

Degree(c, E) == Cardinality({e \in E : c \in e})

\* Edges are removed from the loose ends inwards; what stays lies on cycles.
RECURSIVE Strip(_)
Strip(E) ==
    LET loose == {e \in E : \E c \in e : Degree(c, E) = 1}
    IN  IF loose = {} THEN E ELSE Strip(E \ loose)

Acyclic(E) == Strip(E) = {}

\* The cells joined to a cell of S by edges of E.
RECURSIVE Joined(_, _)
Joined(S, E) ==
    LET T == S \cup UNION {e \in E : e \cap S # {}}
    IN  IF T = S THEN S ELSE Joined(T, E)

\* Degrees of a full solution: blank cells 0 or 2, labeled cells exactly 1.
DegreesFit(E) ==
    \A c \in Keys :
        IF table_[c] = 0 THEN Degree(c, E) \in {0, 2} ELSE Degree(c, E) = 1

\* Every line of E joins exactly two labeled cells, of one positive label.
LinesFit(E) ==
    \A c \in UNION E :
        LET labeled == {d \in Joined({c}, E) : table_[d] # 0}
        IN  /\ Cardinality(labeled) = 2
            /\ \A d1, d2 \in labeled : table_[d1] = table_[d2] /\ 0 < table_[d1]

IsSolution(E) == DegreesFit(E) /\ Acyclic(E) /\ LinesFit(E)

\* ------------------------------------------------------------------ claims

\* C1: Solve() returns the number of sets of edges between grid-adjacent
\* cells in which every blank cell has degree 0 or 2, every labeled cell has
\* degree 1, there is no cycle and the two ends of every path carry the same
\* positive label.
C1_CountsSolutions ==
    pc = "done" => result = Cardinality({E \in SUBSET GridEdges : IsSolution(E)})

\* A board with several solutions on a grid with a cycle has been solved.
C1_Witness ==
    pc = "done" /\ result >= 2 /\ width_ >= 2 /\ height_ >= 2

\* Solve is entered with cell_key == size_ and passes the checks of the newly
\* fixed cells: it returns 1.
AtTerminal ==
    /\ pc = "solving" /\ Top.pc \in CallPcs
    /\ Top.cell_key + 1 = size_
    /\ ~RetireFails(size_, mates_)

\* C2: at every terminal state the search accepts, the drawn edges give every
\* blank cell degree 0 or 2 and every labeled cell degree 1, and every drawn
\* line joins exactly two cells of the same positive label and no other
\* labeled cell.
C2_AcceptedDegrees ==
    AtTerminal => DegreesFit(DrawnEdges) /\ LinesFit(DrawnEdges)

\* An accepted terminal state whose line passes through a blank cell.
C2_Witness ==
    /\ AtTerminal
    /\ \E c \in Keys : table_[c] = 0 /\ Degree(c, DrawnEdges) = 2

\* C3: RevertMates(revert_point) leaves mates_ as it was when revert_point was
\* taken and the undo log at that length, whatever UniteMates calls came in
\* between; with nothing logged since, it changes nothing.
C3_RollbackExact ==
    [][(pc = "solving" /\ Top.pc \in RevertPcs) =>
         /\ mates_' = Top.entry_mates
         /\ Len(mate_stack_') = Top.revert_point
         /\ (Len(mate_stack_) = Top.revert_point =>
                mates_' = mates_ /\ mate_stack_' = mate_stack_)]_vars

\* A rollback has undone a UniteMates call that had changed mates_, below
\* earlier entries of the undo log.
C3_Witness ==
    /\ pc = "solving" /\ Top.pc = "try_left"
    /\ 0 <= UpCellKey(Top.cell_key)
    /\ mates_[UpCellKey(Top.cell_key)] # Closed
    /\ Top.revert_point > 0
    /\ Len(mate_stack_) = Top.revert_point
    /\ mates_ = Top.entry_mates

\* C4: the count Solve() returns with the memo table equals the count of the
\* same search with the memo disabled.
C4_MemoSound ==
    pc = "done" => result = NoMemoSolve(0, [k \in Keys |-> k])

\* The memo table answers a call with a positive count.
C4_Witness ==
    /\ pc = "solving" /\ Top.pc \in CallPcs
    /\ Top.cell_key + 1 # size_
    /\ ~RetireFails(Top.cell_key + 1, mates_)
    /\ LET mate_hash == GetHash(MateTuple(Top.cell_key + 1))
       IN  /\ mate_hash \in DOMAIN memo_[Top.cell_key + 1]
           /\ memo_[Top.cell_key + 1][mate_hash] > 0

\* C5: during the search, before and after every UniteMates and RevertMates
\* call, a cell whose mate is a normal key is the mate of its mate.
C5_Symmetry ==
    pc \in {"loaded", "solving", "done"} =>
        \A c \in Keys :
            (mates_[c] # c /\ mates_[c] # Closed) => mates_[mates_[c]] = c

\* A UniteMates call has returned false after changing mates_.
C5_Witness ==
    /\ pc = "solving" /\ Top.pc \in {"up_revert", "left_revert", "left_done"}
    /\ Len(mate_stack_) > Top.revert_point
    /\ \E c \in Keys : mates_[c] # Top.entry_mates[c] /\ mates_[c] # Closed

\* C6: the drawn edges never contain a cycle: every component is a simple
\* path.
C6_NoCycle ==
    InSearch =>
        /\ Acyclic(DrawnEdges)
        /\ \A c \in Keys : Degree(c, DrawnEdges) <= 2

\* UniteMates has refused the edge between the two ends of one chain: the
\* cell and its upper cell are joined through the left cell.
C6_Witness ==
    /\ pc = "solving" /\ Top.pc = "left_done"
    /\ 0 <= UpCellKey(Top.cell_key)
    /\ mates_[Top.cell_key] = UpCellKey(Top.cell_key)
    /\ mates_[UpCellKey(Top.cell_key)] = Top.cell_key
    /\ ~connected_y_[Top.cell_key]

\* The number of cells of the input that carry the value v.
Occurrences(v) == Cardinality({p \in DOMAIN input : input[p] = v})

\* C7: a board on which some positive label occurs an odd number of times has
\* no solution.
C7_OddLabel ==
    (pc = "done" /\ \E p \in DOMAIN input :
                        input[p] > 0 /\ Occurrences(input[p]) % 2 = 1)
        => result = 0

\* A board with three cells of one label has been solved.
C7_Witness ==
    /\ pc = "done"
    /\ \E p \in DOMAIN input : input[p] > 0 /\ Occurrences(input[p]) = 3

\* C8: Initialize makes keys_ and cell_x_ / cell_y_ mutually inverse
\* bijections, and the keys follow the anti-diagonals x + y upwards, each
\* from its cell of largest x to its cell of smallest x.
C8_KeyOrder ==
    pc \in {"init_start", "initialized"} =>
        /\ \A k \in Keys :
              /\ cell_x_[k] \in 0 .. width_ - 1
              /\ cell_y_[k] \in 0 .. height_ - 1
              /\ keys_[cell_y_[k] * width_ + cell_x_[k]] = k
        /\ \A p \in 0 .. size_ - 1 :
              /\ keys_[p] \in Keys
              /\ cell_x_[keys_[p]] = p % width_
              /\ cell_y_[keys_[p]] = p \div width_
        /\ \A a, b \in Keys :
              a < b =>
                 \/ cell_x_[a] + cell_y_[a] < cell_x_[b] + cell_y_[b]
                 \/ /\ cell_x_[a] + cell_y_[a] = cell_x_[b] + cell_y_[b]
                    /\ cell_x_[a] > cell_x_[b]

\* The 4x4 table of the header comment of the source.
C8_Witness ==
    /\ pc = "initialized" /\ width_ = 4 /\ height_ = 4
    /\ keys_ = [p \in 0 .. 15 |->
                  <<0, 1, 3, 6, 2, 4, 7, 10, 5, 8, 11, 13, 9, 12, 14, 15>>[p + 1]]

\* C9: Print is called at the first terminal state of the search and at no
\* other: once the search is over it has been called once if the count is
\* positive and never if it is zero, whatever solved_ held before Solve(0).
C9_PrintOnce ==
    /\ InSearch => print_count = (IF terminals > 0 THEN 1 ELSE 0)
    /\ InSearch => solved_ = (terminals > 0)
    /\ pc = "done" => (result > 0 <=> print_count = 1)
    /\ pc = "done" => (result = 0 <=> print_count = 0)

\* The search is over, it reached several terminal states and printed one.
C9_Witness ==
    pc = "done" /\ terminals >= 2 /\ print_count = 1

\* C10, as stated: once a cell's value is closed, no later step changes it.
C10_ClosedForever ==
    [][\A c \in Keys : mates_[c] = Closed => mates_'[c] = Closed]_vars

\* C10, amended: a closed cell changes only when RevertMates rolls mates_ back,
\* and then to the value it had when the checkpoint was taken; no UniteMates
\* call changes a cell that is closed when the call begins.
C10_ClosedUntilRevert ==
    [][\A c \in Keys :
          (mates_[c] = Closed /\ mates_'[c] # Closed) =>
              /\ pc = "solving" /\ Top.pc \in RevertPcs
              /\ mates_'[c] = Top.entry_mates[c]]_vars

\* A cell closed when Connect took its checkpoint is still closed after a
\* successful UniteMates call.
C10_Witness ==
    /\ pc = "solving" /\ Top.pc \in {"up", "left", "leftup"}
    /\ \E c \in Keys : Top.entry_mates[c] = Closed /\ mates_[c] = Closed


\* C11: reading a width or a height that is zero or negative ends in an
\* InvalidDimensions error; the dataset sequence does not end silently and
\* no solver is built.
C11_InvalidDimensions ==
    (pc # "scanned" /\ (width_ <= 0 \/ height_ <= 0))
        => pc = "invalid_dimensions"


\* C12: on the 1x1 board whose cell is 0 the count is exactly 1 and the
\* solution is printed once; Connect(0) works on the empty sequence of
\* mates and has neither an upper nor a left cell.
C12_SingleBlank ==
    (width_ = 1 /\ height_ = 1 /\ pc \in {"solving", "done"} /\ input[0] = 0)
        => /\ pc = "solving" =>
                /\ Len(frames) = 1 /\ Top.cell_key = 0
                /\ MateTuple(0) = <<>>
                /\ Top.mate_hash = GetHash(<<>>)
                /\ UpCellKey(0) = -1 /\ LeftCellKey(0) = -1
           /\ pc = "done" =>
                result = 1 /\ print_count = 1 /\ terminals = 1

C12_Witness ==
    /\ width_ = 1 /\ height_ = 1 /\ pc = "done" /\ input[0] = 0
    /\ result = 1 /\ print_count = 1


\* The last UniteMates call of the innermost Connect returned false.
MergeRefused ==
    /\ pc = "solving"
    /\ \/ Top.pc \in {"up_revert", "left_revert"}
       \/ Top.pc = "left_done" /\ 0 <= UpCellKey(Top.cell_key)

\* The innermost Connect has not connected its cell yet.
BeforeMerges == pc = "solving" /\ Top.pc \in {"none", "try_up", "try_left"}

\* C13: in a search state reached through merges that all returned true,
\* mates_[c] = c exactly when c has no drawn edge, mates_[c] = -1 exactly
\* when c has two, and otherwise c has one drawn edge and mates_[c] is the
\* other end of the path through c; the cells from the current index on are
\* in the self state.
C13_Representation ==
    (InSearch /\ ~MergeRefused) =>
        /\ \A c \in Keys :
            /\ mates_[c] = c <=> Degree(c, DrawnEdges) = 0
            /\ mates_[c] = Closed <=> Degree(c, DrawnEdges) = 2
            /\ Degree(c, DrawnEdges) \notin {0, 2} =>
                /\ Degree(c, DrawnEdges) = 1
                /\ mates_[c] \in Keys \ {c}
                /\ mates_[c] \in Joined({c}, DrawnEdges)
                /\ Degree(mates_[c], DrawnEdges) = 1
        /\ pc = "solving" =>
            \A c \in Keys :
                (Top.cell_key < c \/ (Top.cell_key = c /\ BeforeMerges))
                    => mates_[c] = c

\* A path of three cells: a closed cell between two ends that name each
\* other.
C13_Witness ==
    /\ pc = "solving" /\ ~MergeRefused
    /\ \E c, d, e \in Keys :
        /\ mates_[c] = Closed /\ Degree(c, DrawnEdges) = 2
        /\ mates_[d] = e /\ mates_[e] = d /\ d # e
        /\ {d, e} \subseteq Joined({c}, DrawnEdges)


\* The cells Solve(cell_key) checks (line 106), for 0 < cell_key.
CheckedAt(cell_key) == start_[cell_key - 1] .. start_[cell_key] - 1

\* The keys of the cells to the right of and below a cell, -1 out of bounds.
RightCellKey(k) ==
    IF cell_x_[k] + 1 < width_ THEN GetCellKey(cell_x_[k] + 1, cell_y_[k]) ELSE -1

BelowCellKey(k) ==
    IF cell_y_[k] + 1 < height_ THEN GetCellKey(cell_x_[k], cell_y_[k] + 1) ELSE -1

\* One past the larger key of the right and below neighbours, k + 1 without.
ReleaseIndex(k) ==
    IF RightCellKey(k) < 0 /\ BelowCellKey(k) < 0 THEN k + 1
    ELSE IF RightCellKey(k) < BelowCellKey(k) THEN BelowCellKey(k) + 1
    ELSE RightCellKey(k) + 1

\* Every cell is checked by exactly one of Solve(1) .. Solve(size_), the one
\* of its release index, which is after the calls of Connect for the cell,
\* its right and its below neighbour.
CheckedOnce ==
    pc \in {"initialized", "loaded", "solving", "done"} =>
        \A k \in Keys :
            /\ {i \in 1 .. size_ : k \in CheckedAt(i)} = {ReleaseIndex(k)}
            /\ k < ReleaseIndex(k)
            /\ RightCellKey(k) < ReleaseIndex(k)
            /\ BelowCellKey(k) < ReleaseIndex(k)

\* A cell Solve(CalleeKey) checks is empty with one drawn edge, or numbered
\* and unused.
CheckFinds ==
    /\ Calling /\ 0 < CalleeKey
    /\ \E hidden \in CheckedAt(CalleeKey) :
          \/ table_[hidden] = 0 /\ Degree(hidden, DrawnEdges) = 1
          \/ table_[hidden] # 0 /\ mates_[hidden] = hidden

\* The call of Solve made in this step returns 0 at once.
ReturnsZero ==
    /\ Len(frames') = Len(frames)
    /\ terminals' = terminals
    /\ IF frames = <<>>
       THEN pc' = "done" /\ result' = 0
       ELSE /\ frames'[Len(frames)].solution_count = Top.solution_count
            /\ frames'[Len(frames)].pc = AfterCall(Top.pc)

\* C14: every cell is checked exactly once between Solve(0) and Solve(N),
\* at the index one past the larger key of its right and below neighbours
\* (its own key plus one without them); an empty cell with exactly one edge
\* or a numbered cell still unused at that check makes the call return 0.
C14_RetireOnce == []CheckedOnce /\ [][CheckFinds => ReturnsZero]_vars

\* Solve has just returned 0 for a checked empty cell with one edge.
C14_Witness ==
    /\ pc = "solving" /\ Top.pc \in {"up_done", "try_leftup", "leftup_done"}
    /\ Top.solution_count = 0
    /\ Top.cell_key + 1 <= size_
    /\ \E hidden \in CheckedAt(Top.cell_key + 1) :
          table_[hidden] = 0 /\ Degree(hidden, DrawnEdges) = 1


\* The innermost Connect is about to call UniteMates (lines 148, 157, 162).
UniteCall ==
    /\ pc = "solving"
    /\ \/ Top.pc \in {"try_up", "try_leftup"} /\ 0 <= UpCellKey(Top.cell_key)
       \/ Top.pc = "try_left" /\ 0 <= LeftCellKey(Top.cell_key)

\* The second argument of that call; the first is Top.cell_key.
UniteWith ==
    IF Top.pc = "try_left" THEN LeftCellKey(Top.cell_key)
    ELSE UpCellKey(Top.cell_key)

\* One of the two cells is closed, or they are the two ends of one chain.
ClosedOrSameChain ==
    \/ mates_[Top.cell_key] = Closed
    \/ mates_[UniteWith] = Closed
    \/ mates_[Top.cell_key] = UniteWith /\ mates_[UniteWith] = Top.cell_key

\* C15: UniteMates returns false when one of its two cells is closed or the
\* two cells are the ends of the same chain, and then changes neither mates_
\* nor mate_stack_; in every other call it changes both.
C15_RefusedUnchanged ==
    [][UniteCall =>
         IF ClosedOrSameChain
         THEN /\ frames'[Len(frames)].pc \in
                     {"up_revert", "left_revert", "left_done"}
              /\ mates_' = mates_
              /\ mate_stack_' = mate_stack_
         ELSE /\ mates_' # mates_
              /\ Len(mate_stack_') > Len(mate_stack_)]_vars

\* UniteMates has just refused a closed upper cell.
C15_Witness ==
    /\ pc = "solving" /\ Top.pc = "up_revert"
    /\ mates_[UpCellKey(Top.cell_key)] = Closed
    /\ mates_[Top.cell_key] = Top.cell_key
    /\ Len(mate_stack_) = Top.revert_point


\* The free end of the chain of drawn edges a cell of degree 0 or 1 is on:
\* the cell itself when it has no edge.
ChainEnd(c) ==
    IF Degree(c, DrawnEdges) = 0 THEN c
    ELSE CHOOSE d \in Joined({c}, DrawnEdges) \ {c} : Degree(d, DrawnEdges) = 1

\* The edge between cells a and b would be the second edge of a numbered
\* cell, or would make one chain of two chains whose free ends carry
\* different positive numbers.
EdgeForbidden(a, b) ==
    \/ 0 < table_[a] /\ Degree(a, DrawnEdges) >= 1
    \/ 0 < table_[b] /\ Degree(b, DrawnEdges) >= 1
    \/ /\ Degree(a, DrawnEdges) <= 1 /\ Degree(b, DrawnEdges) <= 1
       /\ 0 < table_[ChainEnd(a)] /\ 0 < table_[ChainEnd(b)]
       /\ table_[ChainEnd(a)] # table_[ChainEnd(b)]

\* No numbered cell has two drawn edges and no chain of drawn edges has two
\* free ends with different positive numbers.
NumbersRespected ==
    /\ \A c \in Keys :
          0 < table_[c] => mates_[c] # Closed /\ Degree(c, DrawnEdges) <= 1
    /\ \A c, d \in Keys :
          (/\ c # d /\ d \in Joined({c}, DrawnEdges)
           /\ Degree(c, DrawnEdges) = 1 /\ Degree(d, DrawnEdges) = 1
           /\ 0 < table_[c] /\ 0 < table_[d]) => table_[c] = table_[d]

\* C16: UniteMates returns false when the edge would be the second edge of
\* a numbered cell or would join free ends with different positive numbers;
\* so in every state in which Connect calls Solve no numbered cell is closed
\* and no chain has two ends with different positive numbers.
C16_NumbersRespected ==
    /\ [](pc = "solving" /\ Top.pc \in CallPcs => NumbersRespected)
    /\ [][(UniteCall /\ EdgeForbidden(Top.cell_key, UniteWith)) =>
            frames'[Len(frames)].pc \in
                {"up_revert", "left_revert", "left_done"}]_vars

\* UniteMates has just refused the second edge of a numbered cell, after
\* closing it.
C16_Witness ==
    /\ pc = "solving" /\ Top.pc = "left_done"
    /\ 0 <= UpCellKey(Top.cell_key)
    /\ 0 < table_[Top.cell_key]
    /\ mates_[Top.cell_key] = Closed
    /\ mates_[UpCellKey(Top.cell_key)] # Closed


\* C17: when a call of Solve returns, at once (a failed check, the terminal
\* case, a memo hit) or when its Connect returns after all four branches,
\* mates_, the length of mate_stack_, connected_x_ and connected_y_ are what
\* they were when the call was made.
C17_FrameRestored ==
    [][/\ (pc = "solving" /\ Len(frames') < Len(frames)) =>
            /\ mates_' = Top.entry_mates
            /\ Len(mate_stack_') = Top.revert_point
            /\ connected_x_' = Top.entry_x
            /\ connected_y_' = Top.entry_y
       /\ (Calling /\ Len(frames') <= Len(frames)) =>
            /\ mates_' = mates_
            /\ mate_stack_' = mate_stack_
            /\ connected_x_' = connected_x_
            /\ connected_y_' = connected_y_]_vars

\* Solve(0) has returned to main after reaching the terminal case on
\* several branches and refusing others: nothing is left of the edges.
C17_Witness ==
    /\ pc = "done" /\ 1 < terminals
    /\ 4 <= size_
    /\ mates_ = [k \in Keys |-> k]
    /\ mate_stack_ = <<>>
    /\ \A k \in Keys : ~connected_x_[k] /\ ~connected_y_[k]


\* How far a Connect call has come: its positions in the order of the code.
Stage(p) ==
    CASE p = "none" -> 1
      [] p = "try_up" -> 2
      [] p = "up" -> 3
      [] p \in {"up_done", "up_revert"} -> 4
      [] p = "try_left" -> 5
      [] p = "left" -> 6
      [] p = "try_leftup" -> 7
      [] p = "leftup" -> 8
      [] p \in {"leftup_done", "left_done", "left_revert"} -> 9

\* The progress of the search: the stages of the active Connect calls read
\* as the digits of a decimal number of size_ digits, outermost call first.
RECURSIVE RankFrom(_)
RankFrom(i) ==
    IF i > Len(frames) THEN 0
    ELSE Stage(frames[i].pc) * 10 ^ (size_ - i) + RankFrom(i + 1)

Rank == RankFrom(1)

\* The active Connect calls are those of cells 0, 1, 2, ... in this order,
\* at most size_ of them, and Solve is called with an index up to size_.
CallsInOrder ==
    InSearch =>
        /\ \A i \in 1 .. Len(frames) : frames[i].cell_key = i - 1
        /\ Len(frames) <= size_
        /\ Calling => CalleeKey <= size_
        /\ Rank \in 0 .. 10 ^ size_

\* C18: Solve(0) terminates: every call of Solve made by Connect(k) is
\* Solve(k + 1), no call has an index above size_, at most size_ Connect
\* calls are active, and every step of the search increases a progress
\* measure that is bounded by 10 ^ size_.
C18_Terminates ==
    /\ []CallsInOrder
    /\ [][(pc \in {"loaded", "solving"} /\ pc' = "solving") => Rank < Rank']_vars

\* The deepest point: Connect of the last cell calls Solve(size_).
C18_Witness ==
    /\ pc = "solving" /\ 4 <= size_
    /\ Len(frames) = size_
    /\ Calling /\ CalleeKey = size_


\* The integer main read for the cell of a key.
InputOf(k) == input[cell_y_[k] * width_ + cell_x_[k]]

\* C19: every cell whose input integer is positive is treated as numbered
\* (table_ is not 0 for the check of Solve and is positive for UniteMates),
\* only the input 0 is treated as empty, and two cells carry the same number
\* exactly when their input integers are equal, also for integers above the
\* range of CellNumber such as 128 and 256.
C19_LabelsKept ==
    (pc \in {"loaded", "solving", "done"} /\ HasCells) =>
        \A k1, k2 \in Keys :
            /\ InputOf(k1) = 0 <=> table_[k1] = 0
            /\ 0 < InputOf(k1) => 0 < table_[k1]
            /\ InputOf(k1) = InputOf(k2) <=> table_[k1] = table_[k2]

====
